---- MODULE Spec2Model ----
(***************************************************************************)
(* The activity runner of the rewards bot (Workers): doDailySet,           *)
(* doMorePromotions and solveActivities with its per-activity steps        *)
(* (manageTabLifecycle, applyThrottle, buildActivitySelector,              *)
(* prepareActivityPage, executeActivity), the browser context's tab list   *)
(* (BrowserUtil.getLatestTab), the activity statistics tracker, and the    *)
(* three collaborators whose sources are not part of the tree (Retry,      *)
(* AdaptiveThrottler, JobState), modelled from their description.          *)
(* Checked on their own: buildActivitySelector, the error-reporting        *)
(* endpoint, applyThrottle with Util.waitRandom, getLatestTab, goHome,     *)
(* reloadPageWithRetry and AxiosClient.request.                            *)
(***************************************************************************)
EXTENDS Integers, Sequences, FiniteSets, TLC

VARIABLES
    data,          \* DashboardData snapshot handed to the workers
    config,        \* bot.config: jobState.enabled, retryPolicy.maxAttempts, globalTimeout
    jobDone,       \* JobState: offer ids marked done for (account, today)
    stats,         \* ActivityStatsTracker.stats: normalized type -> ActivityStat
    pages,         \* page.context().pages(): tabs in opening order
    closeCall,     \* the page.close() of the last manageTabLifecycle call
    pc,            \* position of the runner
    caller,        \* which worker called solveActivities
    activities,    \* the list passed to solveActivities
    idx,           \* index of the activity of the current loop iteration
    throttle,      \* the AdaptiveThrottler of this solveActivities call
    attempt,       \* Retry.run: invocations of the wrapped operation so far
    error,         \* the exception being thrown / caught (NoError when none)
    orphans,       \* handler promises that lost the race and are still running
    attempted,     \* offer ids whose loop body was entered, in order
    failedLog,     \* offer ids logged by the catch of solveActivities (line 213)
    runs,          \* worker entry points started so far
    card,          \* doPunchCard: index of the punch card of the current iteration
    records,       \* throttle.record calls made for the current activity
    jobCalls,      \* JobState methods Workers has invoked so far
    summary,       \* generateReport: the tracker summary logActivityStats read
    selArgs,       \* buildActivitySelector: punch card, activity and page content
    selector,      \* buildActivitySelector: the selector returned
    env,           \* error-reporting endpoint: process.env
    rateLimitMap,  \* error-reporting endpoint: ip -> { count, resetTime }
    now,           \* error-reporting endpoint: Date.now()
    request,       \* error-reporting endpoint: the request handled last
    response,      \* error-reporting endpoint: the answer to it
    recent,        \* requests without the valid secret that were let through,
                   \* per ip and per instant of the last minute
    throttled,     \* applyThrottle on its own: the throttler and the last wait
    ctx,           \* getLatestTab on its own: the context's pages and the page returned
    home,          \* goHome on its own: the page and the position in the function
    reload,        \* reloadPageWithRetry on its own: the attempts and the outcome
    axios          \* AxiosClient.request on its own: the attempts and the outcome

selectorVars == <<selArgs, selector>>

endpointVars == <<env, rateLimitMap, now, request, response, recent>>

\* the variables of the components checked on their own
utilVars == <<throttled, ctx, home, reload, axios>>

sideVars == <<selectorVars, endpointVars, utilVars>>

\* what only a few of the actions touch
otherVars == <<jobCalls, summary, sideVars>>

\* the state of Workers and of the objects it drives
runnerVars == <<data, config, jobDone, stats, pages, closeCall, pc, caller, activities,
                idx, throttle, attempt, error, orphans, attempted, failedLog, runs, card,
                records, jobCalls, summary>>

vars == <<data, config, jobDone, stats, pages, closeCall, pc, caller, activities,
          idx, throttle, attempt, error, orphans, attempted, failedLog, runs, card, records, otherVars>>

-----------------------------------------------------------------------------
(* Bounds of the model *)

MaxReloadAttempts == 3

MaxRuns == 1
MaxTabs == 5
MaxAttemptsCfg == 2
MaxOrphans == 1
MaxTicks == 3

-----------------------------------------------------------------------------
(* Dashboard data *)

Act(id, done, max, ptype, lock) ==
    [offerId |-> id, complete |-> done, pointProgressMax |-> max,
     promotionType |-> ptype, exclusiveLockedFeatureStatus |-> lock]

NoItem == [offerId |-> "none", complete |-> TRUE, pointProgressMax |-> 0,
           promotionType |-> "", exclusiveLockedFeatureStatus |-> "notsupported"]

\* a punch card: its parent promotion (NoParent when absent) and its children
NoParent == [title |-> "", complete |-> TRUE, present |-> FALSE]

Parent(title, done) == [title |-> title, complete |-> done, present |-> TRUE]

PunchCard(parent, children) == [parentPromotion |-> parent, childPromotions |-> children]

Snapshots ==
    { [dailySet |-> <<Act("d1", FALSE, 10, "quiz", "notsupported"),
                      Act("d2", FALSE, 10, "urlreward", "notsupported")>>,
       morePromotions |-> <<Act("m1", FALSE, 10, "quiz", "unlocked")>>,
       promotionalItem |-> Act("p1", FALSE, 10, "quiz", "unlocked"),
       punchCards |-> <<PunchCard(Parent("Card A", FALSE),
                                  <<Act("c1", FALSE, 10, "quiz", "notsupported")>>),
                        PunchCard(Parent("Card B", FALSE),
                                  <<Act("c2", TRUE, 10, "quiz", "notsupported"),
                                    Act("c3", FALSE, 10, "urlreward", "notsupported")>>)>>],
      [dailySet |-> <<Act("d1", FALSE, 10, "urlreward", "notsupported"),
                      Act("d2", TRUE, 10, "quiz", "notsupported"),
                      Act("d3", FALSE, 10, "other", "notsupported")>>,
       morePromotions |-> <<Act("m1", FALSE, 10, "quiz", "locked"),
                            Act("m2", FALSE, 5, "quiz", "unlocked")>>,
       promotionalItem |-> NoItem,
       punchCards |-> <<PunchCard(Parent("", FALSE),
                                  <<Act("c1", FALSE, 10, "quiz", "notsupported")>>),
                        PunchCard(Parent("Card C", TRUE),
                                  <<Act("c2", FALSE, 10, "quiz", "notsupported")>>),
                        PunchCard(NoParent, <<>>),
                        PunchCard(Parent("Card D", FALSE),
                                  <<Act("c3", TRUE, 10, "quiz", "notsupported")>>)>>],
      [dailySet |-> <<Act("d1", FALSE, 0, "quiz", "notsupported")>>,
       morePromotions |-> <<Act("m1", TRUE, 10, "urlreward", "unlocked")>>,
       promotionalItem |-> NoItem,
       punchCards |-> <<>>] }

OfferIds(list) == [i \in 1..Len(list) |-> list[i].offerId]

SeqRange(s) == { s[i] : i \in 1..Len(s) }

-----------------------------------------------------------------------------
(* JobState *)

isDone(done, offerId) == offerId \in done

markDone(done, offerId) == done \cup {offerId}

-----------------------------------------------------------------------------
(* Activity type labels and the statistics tracker *)

getTypeLabel(activity) ==
    CASE activity.promotionType = "quiz" -> "Quiz"
      [] activity.promotionType = "urlreward" -> "UrlReward"
      [] OTHER -> "Unsupported"

\* String.prototype.toUpperCase on the labels
toUpperCase(label) ==
    CASE label = "Quiz" -> "QUIZ"
      [] label = "UrlReward" -> "URLREWARD"
      [] OTHER -> "UNSUPPORTED"

NormalizedTypes == {"QUIZ", "URLREWARD", "UNSUPPORTED"}

NoError == [src |-> "none", attempt |-> 0]

Err(src, n) == [src |-> src, attempt |-> n]

NoStat == [present |-> FALSE, attempts |-> 0, successes |-> 0, failures |-> 0,
           lastError |-> NoError]

\* a start that creates the record without counting the attempt
startUncounted(st, activityType) ==
    LET t == toUpperCase(activityType)
    IN [st EXCEPT ![t] = IF st[t].present THEN st[t] ELSE [NoStat EXCEPT !.present = TRUE]]

startActivity(st, activityType) ==
    LET t == toUpperCase(activityType)
        cur == IF st[t].present THEN st[t] ELSE [NoStat EXCEPT !.present = TRUE]
    IN [st EXCEPT ![t] = [cur EXCEPT !.attempts = cur.attempts + 1]]

recordSuccess(st, activityType) ==
    LET t == toUpperCase(activityType)
    IN IF st[t].present
       THEN [st EXCEPT ![t].successes = st[t].successes + 1]
       ELSE st

recordFailure(st, activityType, e) ==
    LET t == toUpperCase(activityType)
    IN IF st[t].present
       THEN [st EXCEPT ![t].failures = st[t].failures + 1,
                       ![t].lastError = IF e # NoError THEN e ELSE st[t].lastError]
       ELSE st

\* getSummary: the totals over the types the map holds
getSummary(st) ==
    [totalAttempts |-> st["QUIZ"].attempts + st["URLREWARD"].attempts
                         + st["UNSUPPORTED"].attempts,
     totalSuccesses |-> st["QUIZ"].successes + st["URLREWARD"].successes
                          + st["UNSUPPORTED"].successes,
     totalFailures |-> st["QUIZ"].failures + st["URLREWARD"].failures
                         + st["UNSUPPORTED"].failures]

NoSummary == [totalAttempts |-> -1, totalSuccesses |-> -1, totalFailures |-> -1]

\* a reset that leaves the map as it is
resetKeeps(st) == st

\* ActivityStatsTracker.reset: this.stats.clear()
reset(st) == [t \in NormalizedTypes |-> NoStat]

-----------------------------------------------------------------------------
(* AdaptiveThrottler: a delay multiplier, in hundredths *)

MinMultiplier == 100
MaxMultiplier == 300
FailureStep == 100
SuccessStep == 50

Clamp(lo, x, hi) == IF x < lo THEN lo ELSE IF x > hi THEN hi ELSE x

NewThrottler == [multiplier |-> MinMultiplier]

\* a throttler that forgets to bound the multiplier
recordUnclamped(th, ok) ==
    IF ok
    THEN [th EXCEPT !.multiplier = th.multiplier - SuccessStep]
    ELSE [th EXCEPT !.multiplier = th.multiplier + FailureStep]

record(th, ok) ==
    IF ok
    THEN [th EXCEPT !.multiplier = Clamp(MinMultiplier, th.multiplier - SuccessStep, MaxMultiplier)]
    ELSE [th EXCEPT !.multiplier = Clamp(MinMultiplier, th.multiplier + FailureStep, MaxMultiplier)]

getDelayMultiplier(th) == th.multiplier

-----------------------------------------------------------------------------
(* Retry.run: whether a failed attempt is followed by another one *)

isRetryable(e) == TRUE

RetryAgain(n, maxAttempts, e) == n < maxAttempts /\ isRetryable(e)

-----------------------------------------------------------------------------
(* Util.stringToMs and the delays of applyThrottle *)

\* the ms() parser on the configured values: undefined (0) when unparsable
ms(input) == IF input = "30s" THEN 30000 ELSE 0

stringToMsThrows(input) == ms(input) = 0

timeoutMs(cfg) == ms(cfg.globalTimeout) * 2

THROTTLE_MIN == 800
THROTTLE_MAX == 1400
ACTIVITY_SPACING_MIN == 1200
ACTIVITY_SPACING_MAX == 2600

\* Math.floor(min * multiplier), the multiplier in hundredths
ScaledDelay(base, th) == (base * getDelayMultiplier(th)) \div 100

\* Util.waitRandom rejects a window whose minimum exceeds its maximum
applyThrottleThrows(th, min, max) == ScaledDelay(min, th) > ScaledDelay(max, th)

MAX_WAIT_MS == 3600000

\* Math.random(), in thousandths: a value of [0, 1)
Randoms == { 0, 100, 200, 300, 400, 500, 600, 700, 800, 900, 999 }

\* a draw that forgets to add the minimum
randomNumberFromZero(min, max, rnd) ==
    [thrown |-> min > max, value |-> (rnd * (max - min + 1)) \div 1000]

\* Util.randomNumber: Math.floor(Math.random() * (max - min + 1)) + min
randomNumber(min, max, rnd) ==
    [thrown |-> min > max, value |-> (rnd * (max - min + 1)) \div 1000 + min]

\* Util.wait: rejects a negative time, clamps the rest to [0, MAX_WAIT_MS]
wait(t) ==
    [thrown |-> t < 0, waited |-> Clamp(0, t, MAX_WAIT_MS)]

\* Util.waitRandom(minMs, maxMs): the range check, the draw, the wait
waitRandom(minMs, maxMs, rnd) ==
    LET delta == randomNumber(minMs, maxMs, rnd)
    IN IF minMs > maxMs \/ delta.thrown
       THEN [minMs |-> minMs, maxMs |-> maxMs, thrown |-> TRUE, waited |-> 0]
       ELSE [minMs |-> minMs, maxMs |-> maxMs, thrown |-> wait(delta.value).thrown,
             waited |-> IF wait(delta.value).thrown THEN 0 ELSE wait(delta.value).waited]

\* Workers.applyThrottle(throttle, min, max)
applyThrottle(th, min, max, rnd) ==
    waitRandom(ScaledDelay(min, th), ScaledDelay(max, th), rnd)

-----------------------------------------------------------------------------
(* The browser context's tabs and BrowserUtil.getLatestTab *)

\* a listed page; the list is in opening order, the last one opened last
OpenTab == [closed |-> FALSE]

RemoveAt(ps, i) == SubSeq(ps, 1, i - 1) \o SubSeq(ps, i + 1, Len(ps))

\* page.close() on the page listed at position i: the tab leaves the context
ClosePage(ps, i) == IF i \in 1..Len(ps) THEN RemoveAt(ps, i) ELSE ps

\* a pick that does not look at isClosed()
LatestTabUnchecked(ps) == Len(ps)

\* the page getLatestTab picks among the listed ones: the last one when it is
\* open, otherwise the first open one; 0 when a page has to be created
LatestTabIndex(ps) ==
    IF Len(ps) = 0 THEN 0
    ELSE IF ~ps[Len(ps)].closed THEN Len(ps)
    ELSE IF \E i \in 1..Len(ps) : ~ps[i].closed
         THEN CHOOSE i \in 1..Len(ps) :
                  ~ps[i].closed /\ \A j \in 1..(i - 1) : ps[j].closed
         ELSE 0

\* outcomes of getLatestTab: the position of the page it returns, or a throw
\* when browser.newPage() fails
getLatestTab(ps) ==
    LET i == LatestTabIndex(ps)
    IN IF i # 0
       THEN { [ok |-> TRUE, pages |-> ps, page |-> i] }
       ELSE { [ok |-> FALSE, pages |-> ps, page |-> 0] }
            \cup (IF Len(ps) < MaxTabs
                  THEN { [ok |-> TRUE, pages |-> Append(ps, OpenTab), page |-> Len(ps) + 1] }
                  ELSE {})

-----------------------------------------------------------------------------
(* Workers.manageTabLifecycle *)

TAB_CAP == 3

NoClose == [index |-> 0, listed |-> 0]

\* a lifecycle that closes the oldest tab instead
manageCloseOldest(ps, latest) == 1

\* the page manageTabLifecycle closes when the cap is exceeded: the page
\* getLatestTab returned
manageCloseTarget(ps, latest) == latest

\* an outcome carries the pages, the page in hand and the close() that was made
manageAfterClose(a) ==
    IF ~a.ok THEN { [ok |-> FALSE, pages |-> a.pages, page |-> 0, close |-> NoClose] }
    ELSE IF Len(a.pages) > TAB_CAP
         THEN LET target == manageCloseTarget(a.pages, a.page)
              IN { [ok |-> r.ok, pages |-> r.pages, page |-> r.page,
                    close |-> [index |-> target, listed |-> Len(a.pages)]]
                   : r \in getLatestTab(ClosePage(a.pages, target)) }
         ELSE { [ok |-> TRUE, pages |-> a.pages, page |-> a.page, close |-> NoClose] }

\* page.url() is the browser's: when it differs from initialUrl, page.goto
\* succeeds or throws
manageAfterGoto(b) ==
    IF ~b.ok THEN {b} ELSE { b, [b EXCEPT !.ok = FALSE] }

manageTabLifecycle(ps) ==
    UNION { UNION { manageAfterGoto(b) : b \in manageAfterClose(a) }
            : a \in getLatestTab(ps) }

-----------------------------------------------------------------------------
(* Workers.buildActivitySelector and BrowserFunc.getPunchCardActivity; strings
   are sequences of characters *)

LowerChar(c) ==
    CASE c = "B" -> "b" [] c = "C" -> "c" [] c = "E" -> "e" [] c = "G" -> "g"
      [] c = "I" -> "i" [] c = "L" -> "l" [] c = "M" -> "m" [] c = "N" -> "n"
      [] c = "O" -> "o" [] c = "P" -> "p" [] c = "R" -> "r" [] c = "X" -> "x"
      [] c = "A" -> "a" [] c = "K" -> "k" [] c = "S" -> "s" [] c = "T" -> "t"
      [] OTHER -> c

\* a name taken as it is written
keepCase(str) == str

\* String.prototype.toLowerCase
toLowerCase(str) == [i \in 1..Len(str) |-> LowerChar(str[i])]

\* String.prototype.includes
includes(str, search) ==
    \E k \in 0..(Len(str) - Len(search)) : SubSeq(str, k + 1, k + Len(search)) = search

membercenter == <<"m", "e", "m", "b", "e", "r", "c", "e", "n", "t", "e", "r">>

exploreonbing == <<"e", "x", "p", "l", "o", "r", "e", "o", "n", "b", "i", "n", "g">>

\* ACTIVITY_SELECTORS: both templates are [data-bi-id^="..."] .pointLink:not(...)
byName(name) == [kind |-> "data-bi-id", value |-> name]

byOfferId(offerId) == [kind |-> "data-bi-id", value |-> offerId]

\* the .offer-cta elements of the page: each has an href (none: ids = {}) that
\* includes some offer ids
OfferCta(href, ids) == [href |-> href, ids |-> ids]

\* getPunchCardActivity: '' unless an .offer-cta element's href includes the
\* offer id; then a[href*="..."] of the first such element; an error of
\* page.content() is logged and '' is returned
getPunchCardActivity(content, activity) ==
    IF ~content.ok THEN [kind |-> "empty", value |-> <<>>]
    ELSE LET cta == content.offerCta
             hits == { i \in 1..Len(cta) : activity.offerId \in cta[i].ids }
         IN IF hits = {} THEN [kind |-> "empty", value |-> <<>>]
            ELSE [kind |-> "href",
                  value |-> cta[CHOOSE i \in hits : \A j \in hits : i <= j].href]

buildActivitySelector(content, activity, punchCard) ==
    IF punchCard THEN getPunchCardActivity(content, activity)
    ELSE IF \/ includes(toLowerCase(activity.name), membercenter)
            \/ includes(toLowerCase(activity.name), exploreonbing)
         THEN byName(activity.name)
         ELSE IF activity.offerId = <<>>
              THEN byName(activity.name)
              ELSE byOfferId(activity.offerId)

ActivityNames ==
    { <<"M", "e", "m", "b", "e", "r", "C", "e", "n", "t", "e", "r", "1">>,
      <<"a", "_", "E", "X", "P", "L", "O", "R", "E", "O", "N", "B", "I", "N", "G">>,
      <<"e", "x", "p", "l", "o", "r", "e", "o", "n", "b", "i", "n", "g">>,
      <<"m", "e", "m", "b", "e", "r", "c", "e", "n", "t", "e">>,
      <<"q", "u", "i", "z">>,
      <<>> }

SelectorOfferIds == { <<>>, <<"c", "1">>, <<"c", "2">> }

\* page.content(): it throws (ok = FALSE) or gives the page's elements
PageContents ==
    { [ok |-> FALSE, offerCta |-> <<>>],
      [ok |-> TRUE, offerCta |-> <<>>],
      [ok |-> TRUE,
       offerCta |-> <<OfferCta(<<"h", "0">>, {}), OfferCta(<<"h", "1">>, {<<"c", "1">>}),
                      OfferCta(<<"h", "2">>, {<<"c", "1">>, <<"c", "2">>})>>] }

NoArgs == [content |-> [ok |-> TRUE, offerCta |-> <<>>], activity |-> [name |-> <<>>, offerId |-> <<>>],
           punchCard |-> FALSE, called |-> FALSE]

NoSelector == [kind |-> "none", value |-> <<>>]

-----------------------------------------------------------------------------
(* AxiosClient.request, isProxyAuthError and isRetryableError *)

AXIOS_MAX_ATTEMPTS == 2

\* an error of instance.request: err.code, err.cause.code, err.message and
\* err.response.status (0 when there is no response), and what it stands for
AxiosErr(code, causeCode, message, status, kind) ==
    [code |-> code, causeCode |-> causeCode, message |-> message, status |-> status,
     kind |-> kind]

AxiosErrors ==
    { AxiosErr("ECONNREFUSED", "", <<"c", "o", "n", "n", "e", "c", "t">>,
               0, "network"),
      AxiosErr("", "ETIMEDOUT", <<"t", "i", "m", "e", "o", "u", "t">>,
               0, "network"),
      AxiosErr("ECONNRESET", "", <<"r", "e", "s", "e", "t">>,
               0, "network"),
      AxiosErr("ERR_BAD_RESPONSE", "", <<"T", "u", "n", "n", "e", "l", " ", "f", "a", "i", "l", "e", "d">>,
               0, "proxyMessage"),
      AxiosErr("", "", <<"S", "O", "C", "K", "S", " ", "e", "r", "r", "o", "r">>,
               0, "proxyMessage"),
      AxiosErr("ERR_BAD_RESPONSE", "", <<"s", "t", "a", "t", "u", "s", " ", "5", "0", "0">>,
               500, "http"),
      AxiosErr("ERR_BAD_REQUEST", "", <<"s", "t", "a", "t", "u", "s", " ", "4", "0", "4">>,
               404, "http"),
      AxiosErr("ERR_BAD_REQUEST", "", <<"s", "t", "a", "t", "u", "s", " ", "4", "0", "7">>,
               407, "proxyAuth"),
      AxiosErr("ERR_BAD_REQUEST", "", <<"P", "r", "o", "x", "y", " ", "A", "u", "t", "h", "e", "n", "t", "i", "c", "a", "t", "i", "o", "n">>,
               407, "proxyAuth") }

\* nothing was thrown
NoThrown == [wrapped |-> FALSE, of |-> AxiosErr("", "", <<>>, 0, "none")]

\* a check that lets every error through
isProxyAuthErrorNever(err) == FALSE

\* axiosErr?.response?.status === 407
isProxyAuthError(err) == err.status = 407

\* the network error codes (of the error, else of its cause) and the test of
\* the message against /proxy|tunnel|socks|agent/i
isRetryableError(err) ==
    LET code == IF err.code # "" THEN err.code ELSE err.causeCode
        msg == toLowerCase(err.message)
    IN \/ code \in {"ECONNREFUSED", "ETIMEDOUT", "ECONNRESET", "ENOTFOUND", "EPIPE"}
       \/ \E w \in { <<"p", "r", "o", "x", "y">>, <<"t", "u", "n", "n", "e", "l">>,
                      <<"s", "o", "c", "k", "s">>, <<"a", "g", "e", "n", "t">> } :
             includes(msg, w)

-----------------------------------------------------------------------------
(* The error-reporting endpoint: isRateLimited and handler *)

RATE_LIMIT_WINDOW_MS == 60 * 1000
RATE_LIMIT_MAX_REQUESTS == 10

\* the instants of Date.now() at which requests arrive are TickMs apart
TickMs == 30000

Ips == {"ip1"}

NoEntry == [count |-> 0, resetTime |-> -1]

\* a limiter that lets every request with a secret header through
bypassAnySecret(secret, validSecret) == secret # ""

\* secret && validSecret && secret === validSecret
bypass(secret, validSecret) == secret # "" /\ validSecret # "" /\ secret = validSecret

\* isRateLimited: the value returned and the map afterwards
isRateLimited(map, t, ip, secret, validSecret) ==
    IF bypass(secret, validSecret) THEN [limited |-> FALSE, map |-> map]
    ELSE IF map[ip] = NoEntry \/ t > map[ip].resetTime
         THEN [limited |-> FALSE,
               map |-> [map EXCEPT ![ip] = [count |-> 1,
                                            resetTime |-> t + RATE_LIMIT_WINDOW_MS]]]
         ELSE IF map[ip].count >= RATE_LIMIT_MAX_REQUESTS
              THEN [limited |-> TRUE, map |-> map]
              ELSE [limited |-> FALSE,
                    map |-> [map EXCEPT ![ip].count = map[ip].count + 1]]

Req(method, ip, secret, payload, discord) ==
    [method |-> method, ip |-> ip, secret |-> secret, payload |-> payload,
     discord |-> discord]

\* discord: what fetch(webhookUrl) does when it is called
Requests ==
    { Req("OPTIONS", "ip1", "", "ok", "ok"), Req("GET", "ip1", "", "ok", "ok") }
    \cup { Req("POST", ip, secret, "ok", d) :
             ip \in Ips, secret \in {"", "s3cret", "wrong"}, d \in {"ok", "notOk", "throws"} }
    \cup { Req("POST", ip, secret, p, "ok") :
             ip \in Ips, secret \in {"", "s3cret", "wrong"},
             p \in {"noError", "noContext", "noBody"} }

Answer(status, fetched) == [status |-> status, fetched |-> fetched]

\* handler: the status answered, and whether fetch(webhookUrl) was called
handlerAnswer(req, limited, webhookUrl) ==
    IF req.method = "OPTIONS" THEN Answer(200, FALSE)
    ELSE IF req.method # "POST" THEN Answer(405, FALSE)
    ELSE IF limited THEN Answer(429, FALSE)
    ELSE IF webhookUrl = "" THEN Answer(500, FALSE)
    ELSE IF req.payload # "ok" THEN Answer(400, FALSE)
    ELSE IF req.discord = "throws" THEN Answer(500, TRUE)
    ELSE IF req.discord = "notOk" THEN Answer(502, TRUE)
    ELSE Answer(200, TRUE)

\* the limiter is consulted by POST requests only
handlerLimit(req) ==
    IF req.method = "POST"
    THEN isRateLimited(rateLimitMap, now, req.ip, req.secret, env.RATE_LIMIT_SECRET)
    ELSE [limited |-> FALSE, map |-> rateLimitMap]

\* the instants of the last minute, oldest first; the last one is now
RecentLen == RATE_LIMIT_WINDOW_MS \div TickMs

NoRequest == [method |-> "none", ip |-> "ip1", secret |-> "", payload |-> "noBody",
              discord |-> "ok"]

NoEnv == [RATE_LIMIT_SECRET |-> "", DISCORD_ERROR_WEBHOOK_URL |-> ""]

EndpointStart ==
    /\ rateLimitMap = [ip \in Ips |-> NoEntry]
    /\ now = 0
    /\ request = NoRequest
    /\ response = Answer(0, FALSE)
    /\ recent = [ip \in Ips |-> [k \in 1..RecentLen |-> 0]]

EndpointIdle == env = NoEnv /\ EndpointStart

\* one request is handled
Handler ==
    /\ \E req \in Requests :
          LET lim == handlerLimit(req)
              counted == req.method = "POST" /\ ~lim.limited
                         /\ ~(env.RATE_LIMIT_SECRET # "" /\ req.secret = env.RATE_LIMIT_SECRET)
          IN /\ request' = req
             /\ rateLimitMap' = lim.map
             /\ response' = handlerAnswer(req, lim.limited, env.DISCORD_ERROR_WEBHOOK_URL)
             /\ recent' = IF counted
                          THEN [recent EXCEPT ![req.ip][RecentLen] = @ + 1]
                          ELSE recent
    /\ UNCHANGED <<runnerVars, utilVars, selectorVars, env, now>>

\* time passes
Tick ==
    /\ now < MaxTicks * TickMs
    /\ now' = now + TickMs
    /\ recent' = [ip \in Ips |-> Append(Tail(recent[ip]), 0)]
    /\ UNCHANGED <<runnerVars, utilVars, selectorVars, env, rateLimitMap, request, response>>

-----------------------------------------------------------------------------
(* Initial state: a snapshot, a configuration, one tab on the dashboard *)

Configs ==
    { [jobStateEnabled |-> TRUE, maxAttempts |-> MaxAttemptsCfg, globalTimeout |-> "30s"],
      [jobStateEnabled |-> FALSE, maxAttempts |-> 1, globalTimeout |-> "30s"],
      [jobStateEnabled |-> TRUE, maxAttempts |-> 1, globalTimeout |-> "bad"] }

\* offer ids a previous run of the day left marked in the job state
PriorDone == { {}, {"d1"} }

RunnerInit ==
    /\ data \in Snapshots
    /\ config \in Configs
    /\ jobDone \in PriorDone
    /\ stats = [t \in NormalizedTypes |-> NoStat]
    /\ pages = <<OpenTab>>
    /\ closeCall = NoClose
    /\ pc = "idle"
    /\ caller = "none"
    /\ activities = <<>>
    /\ idx = 0
    /\ throttle = NewThrottler
    /\ attempt = 0
    /\ error = NoError
    /\ orphans = 0
    /\ attempted = <<>>
    /\ failedLog = <<>>
    /\ runs = 0
    /\ card = 0
    /\ records = 0
    /\ jobCalls = {}
    /\ summary = NoSummary

\* the runner at rest, for the specifications of the other components
RunnerParked ==
    /\ RunnerInit
    /\ data.punchCards = <<>>
    /\ ~config.jobStateEnabled
    /\ jobDone = {}

SelectorIdle == selArgs = NoArgs /\ selector = NoSelector

\* a component that is not the one under check
Idle == [active |-> FALSE]

\* the components checked on their own: the one named starts with its inputs,
\* the others stay idle
UtilInit(component) ==
    /\ IF component = "applyThrottle"
       THEN throttled = [active |-> TRUE, throttle |-> NewThrottler, called |-> FALSE,
                         minMs |-> 0, maxMs |-> 0, thrown |-> FALSE, waited |-> 0]
       ELSE throttled = Idle
    /\ IF component = "getLatestTab"
       THEN ctx = [active |-> TRUE, pages |-> <<OpenTab>>, before |-> <<>>,
                   called |-> FALSE, ok |-> FALSE, page |-> 0]
       ELSE ctx = Idle
    /\ IF component = "goHome"
       THEN home \in [active : {TRUE}, pc : {"start"}, url : {"home", "rewards", "login"},
                      iteration : {0}, gotos : {0}, reloads : {0}, already : {FALSE},
                      found : {FALSE}, outcome : {"none"}, error : {"none"}]
       ELSE home = Idle
    /\ IF component = "reloadPageWithRetry"
       THEN reload \in [active : {TRUE}, maxAttempts : 1..MaxReloadAttempts, pc : {"loop"},
                        attempt : {1}, elapsed : {0}, startedAt : {0}, lastError : {NoError},
                        results : {<<>>}, goHomes : {0}, outcome : {"none"},
                        thrown : {NoError}]
       ELSE reload = Idle
    /\ IF component = "request"
       THEN axios \in [active : {TRUE}, bypassProxy : BOOLEAN, pc : {"try"}, attempt : {1},
                       requests : {0}, direct : {0}, errors : {<<>>}, slept : {<<>>},
                       outcome : {"none"}, thrown : {NoThrown}]
       ELSE axios = Idle

Init == RunnerInit /\ SelectorIdle /\ EndpointIdle /\ UtilInit("none")

EndpointInit ==
    /\ RunnerParked /\ SelectorIdle /\ UtilInit("none")
    /\ env \in [RATE_LIMIT_SECRET : {"", "s3cret"},
                 DISCORD_ERROR_WEBHOOK_URL : {"", "https://discord/hook"}]
    /\ EndpointStart

SelectorInit ==
    /\ RunnerParked /\ EndpointIdle /\ UtilInit("none")
    /\ selector = NoSelector
    /\ \E c \in PageContents, n \in ActivityNames, o \in SelectorOfferIds, p \in BOOLEAN :
          selArgs = [content |-> c, activity |-> [name |-> n, offerId |-> o],
                     punchCard |-> p, called |-> FALSE]

\* one call of buildActivitySelector(page, activity, punchCard)
BuildSelectorCall ==
    /\ ~selArgs.called
    /\ selArgs # NoArgs
    /\ selector' = buildActivitySelector(selArgs.content, selArgs.activity, selArgs.punchCard)
    /\ selArgs' = [selArgs EXCEPT !.called = TRUE]
    /\ UNCHANGED <<runnerVars, utilVars, endpointVars>>

SelectorSpec == SelectorInit /\ [][BuildSelectorCall]_vars

EndpointSpec == EndpointInit /\ [][Handler \/ Tick]_vars

\* the throttler records an outcome, as solveActivities and executeActivity do
ThrottleRecord ==
    /\ \E ok \in BOOLEAN :
          throttled' = [throttled EXCEPT !.throttle = record(throttled.throttle, ok),
                                         !.called = FALSE, !.minMs = 0, !.maxMs = 0,
                                         !.thrown = FALSE, !.waited = 0]
    /\ UNCHANGED <<runnerVars, selectorVars, endpointVars, ctx, home, reload, axios>>

\* one call of applyThrottle with the window of one of its call sites
\* (lines 198, 210, 267)
ApplyThrottleCall ==
    /\ \E w \in { <<THROTTLE_MIN, THROTTLE_MAX>>,
                   <<ACTIVITY_SPACING_MIN, ACTIVITY_SPACING_MAX>> }, rnd \in Randoms :
          LET r == applyThrottle(throttled.throttle, w[1], w[2], rnd)
          IN throttled' = [throttled EXCEPT !.called = TRUE,
                                            !.minMs = r.minMs, !.maxMs = r.maxMs,
                                            !.thrown = r.thrown, !.waited = r.waited]
    /\ UNCHANGED <<runnerVars, selectorVars, endpointVars, ctx, home, reload, axios>>

\* the browser and the other users of the context between two calls: a tab is
\* opened, a listed page is closed, a closed page leaves the list
CtxChanges ==
    /\ \/ /\ Len(ctx.pages) < MaxTabs
          /\ ctx' = [ctx EXCEPT !.pages = Append(@, OpenTab), !.called = FALSE,
                                 !.before = <<>>, !.ok = FALSE, !.page = 0]
       \/ \E i \in 1..Len(ctx.pages) :
             /\ ~ctx.pages[i].closed
             /\ ctx' = [ctx EXCEPT !.pages[i].closed = TRUE, !.called = FALSE,
                                    !.before = <<>>, !.ok = FALSE, !.page = 0]
       \/ \E i \in 1..Len(ctx.pages) :
             /\ ctx.pages[i].closed
             /\ ctx' = [ctx EXCEPT !.pages = RemoveAt(@, i), !.called = FALSE,
                                    !.before = <<>>, !.ok = FALSE, !.page = 0]
    /\ UNCHANGED <<runnerVars, selectorVars, endpointVars, throttled, home, reload, axios>>

\* one call of getLatestTab(page) on the context
GetLatestTabCall ==
    /\ \E r \in getLatestTab(ctx.pages) :
          ctx' = [ctx EXCEPT !.before = ctx.pages, !.pages = r.pages, !.called = TRUE,
                             !.ok = r.ok, !.page = r.page]
    /\ UNCHANGED <<runnerVars, selectorVars, endpointVars, throttled, home, reload, axios>>

TabInit == RunnerParked /\ SelectorIdle /\ EndpointIdle /\ UtilInit("getLatestTab")

TabSpec == TabInit /\ [][CtxChanges \/ GetLatestTabCall]_vars

\* RETRY_LIMITS.GO_HOME_MAX
GO_HOME_MAX == 3

\* where a navigation of the page can end: the dashboard (baseURL), another
\* page of the dashboard's host, a page of another host (the login)
HomeUrls == {"home", "rewards", "login"}

\* goHome, lines 334-380: the early return on the dashboard URL, navigate()
\* with its one retry on ERR_ABORTED, the readiness and custom-element waits
GoHomeEnter ==
    /\ home # Idle /\ home.pc = "start"
    /\ IF home.url = "home"
       THEN home' = [home EXCEPT !.pc = "done", !.already = TRUE, !.outcome = "returned"]
       ELSE \/ \E u \in HomeUrls, aborted \in BOOLEAN :
                 home' = [home EXCEPT !.pc = "loop", !.iteration = 1, !.url = u,
                                      !.gotos = IF aborted THEN 2 ELSE 1]
            \/ \E aborted \in BOOLEAN :
                 home' = [home EXCEPT !.pc = "done", !.outcome = "thrown",
                                      !.error = "navigation",
                                      !.gotos = IF aborted THEN 2 ELSE 1]
    /\ UNCHANGED <<runnerVars, selectorVars, endpointVars, throttled, ctx, reload, axios>>

\* lines 382-484: one iteration of the detection loop
GoHomeIteration ==
    /\ home # Idle /\ home.pc = "loop" /\ home.iteration <= GO_HOME_MAX
    /\ \/ home' = [home EXCEPT !.pc = "done", !.found = TRUE, !.outcome = "returned"]
       \/ home' = [home EXCEPT !.pc = "done", !.outcome = "thrown",
                               !.error = "Account has been suspended!"]
       \/ IF home.url = "login"
          THEN \/ \E u \in HomeUrls :
                    home' = [home EXCEPT !.url = u, !.gotos = @ + 1, !.iteration = @ + 1]
               \/ home' = [home EXCEPT !.pc = "done", !.outcome = "thrown",
                                       !.error = "navigation", !.gotos = @ + 1]
          ELSE \E u \in {home.url, "home"} :
                  home' = [home EXCEPT !.url = u, !.reloads = @ + 1, !.iteration = @ + 1]
    /\ UNCHANGED <<runnerVars, selectorVars, endpointVars, throttled, ctx, reload, axios>>

\* line 382: iteration <= RETRY_LIMITS.GO_HOME_MAX is false, the loop ends and
\* goHome returns
GoHomeExit ==
    /\ home # Idle /\ home.pc = "loop" /\ home.iteration > GO_HOME_MAX
    /\ home' = [home EXCEPT !.pc = "done", !.outcome = "returned"]
    /\ UNCHANGED <<runnerVars, selectorVars, endpointVars, throttled, ctx, reload, axios>>

HomeInit == RunnerParked /\ SelectorIdle /\ EndpointIdle /\ UtilInit("goHome")

HomeSpec == HomeInit /\ [][GoHomeEnter \/ GoHomeIteration \/ GoHomeExit]_vars

MAX_TOTAL_TIME_MS == 30000

\* how long a reload (or the goHome fallback) can take, in ms
ReloadDurations == {0, 20000}

\* a finish that never throws
reloadOutcomeSwallows(lastError) == "returned"

\* line 608: if (lastError) throw lastError
reloadOutcome(lastError) == IF lastError # NoError THEN "thrown" ELSE "returned"

\* lines 578-606: one iteration of the loop that passed the budget check:
\* page.reload and the wait, or the catch with its goHome fallback and break
ReloadAttempt ==
    /\ reload # Idle /\ reload.pc = "loop"
    /\ reload.attempt <= reload.maxAttempts
    /\ ~(reload.elapsed > MAX_TOTAL_TIME_MS)
    /\ \E d \in ReloadDurations, res \in {"ok", "has been closed", "timeout"} :
          IF res = "ok"
          THEN reload' = [reload EXCEPT !.pc = "end", !.lastError = NoError,
                                        !.startedAt = reload.elapsed,
                                        !.elapsed = @ + d,
                                        !.results = Append(@, Err(res, reload.attempt))]
          ELSE \E g \in ReloadDurations :
                 LET closed == res = "has been closed"
                     fallback == closed /\ reload.attempt = 1
                 IN reload' = [reload EXCEPT
                       !.pc = IF closed /\ reload.attempt # 1 THEN "end" ELSE "loop",
                       !.lastError = Err(res, reload.attempt),
                       !.startedAt = reload.elapsed,
                       !.elapsed = @ + d + (IF fallback THEN g ELSE 0),
                       !.goHomes = @ + (IF fallback THEN 1 ELSE 0),
                       !.attempt = IF closed /\ reload.attempt # 1 THEN @ ELSE @ + 1,
                       !.results = Append(@, Err(res, reload.attempt))]
    /\ UNCHANGED <<runnerVars, selectorVars, endpointVars, throttled, ctx, home, axios>>

\* the loop is left (a break, the budget check of line 580, or attempt >
\* maxAttempts) and line 608 throws lastError or returns
ReloadFinish ==
    /\ reload # Idle
    /\ \/ reload.pc = "end"
       \/ reload.pc = "loop" /\ (reload.attempt > reload.maxAttempts
                                   \/ reload.elapsed > MAX_TOTAL_TIME_MS)
    /\ reload' = [reload EXCEPT !.pc = "done",
                                 !.outcome = reloadOutcome(reload.lastError),
                                 !.thrown = IF reloadOutcome(reload.lastError) = "thrown"
                                            THEN reload.lastError ELSE NoError]
    /\ UNCHANGED <<runnerVars, selectorVars, endpointVars, throttled, ctx, home, axios>>

ReloadInit == RunnerParked /\ SelectorIdle /\ EndpointIdle /\ UtilInit("reloadPageWithRetry")

ReloadSpec == ReloadInit /\ [][ReloadAttempt \/ ReloadFinish]_vars

\* lines 578-581: bypassProxy, the request goes through a fresh axios instance
AxiosBypass ==
    /\ axios # Idle /\ axios.pc = "try" /\ axios.bypassProxy
    /\ \/ axios' = [axios EXCEPT !.pc = "done", !.direct = @ + 1, !.outcome = "returned"]
       \/ \E e \in AxiosErrors :
             axios' = [axios EXCEPT !.pc = "done", !.direct = @ + 1, !.outcome = "thrown",
                                    !.thrown = [wrapped |-> FALSE, of |-> e]]
    /\ UNCHANGED <<runnerVars, selectorVars, endpointVars, throttled, ctx, home, reload>>

\* lines 587-589: one attempt, this.instance.request(config)
AxiosAttempt ==
    /\ axios # Idle /\ axios.pc = "try" /\ ~axios.bypassProxy
    /\ axios.attempt <= AXIOS_MAX_ATTEMPTS
    /\ \/ axios' = [axios EXCEPT !.pc = "done", !.requests = @ + 1, !.outcome = "returned"]
       \/ \E e \in AxiosErrors :
             axios' = [axios EXCEPT !.pc = "catch", !.requests = @ + 1,
                                    !.errors = Append(@, e)]
    /\ UNCHANGED <<runnerVars, selectorVars, endpointVars, throttled, ctx, home, reload>>

\* lines 590-610: the catch: a 407 is thrown as a proxy authentication
\* failure, a retryable error is retried after the backoff while attempts
\* remain, anything else is rethrown
AxiosCatch ==
    /\ axios # Idle /\ axios.pc = "catch"
    /\ LET err == axios.errors[Len(axios.errors)]
       IN IF isProxyAuthError(err)
          THEN axios' = [axios EXCEPT !.pc = "done", !.outcome = "thrown",
                                      !.thrown = [wrapped |-> TRUE, of |-> err]]
          ELSE IF isRetryableError(err) /\ axios.attempt < AXIOS_MAX_ATTEMPTS
               THEN axios' = [axios EXCEPT !.pc = "try", !.attempt = @ + 1,
                                !.slept = Append(@, 1000 * 2 ^ (axios.attempt - 1))]
               ELSE axios' = [axios EXCEPT !.pc = "done", !.outcome = "thrown",
                                           !.thrown = [wrapped |-> FALSE, of |-> err]]
    /\ UNCHANGED <<runnerVars, selectorVars, endpointVars, throttled, ctx, home, reload>>

AxiosInit == RunnerParked /\ SelectorIdle /\ EndpointIdle /\ UtilInit("request")

AxiosSpec == AxiosInit /\ [][AxiosBypass \/ AxiosAttempt \/ AxiosCatch]_vars

ThrottleInit == RunnerParked /\ SelectorIdle /\ EndpointIdle /\ UtilInit("applyThrottle")

ThrottleSpec == ThrottleInit /\ [][ThrottleRecord \/ ApplyThrottleCall]_vars

\* handler invocations (bot.activities.run promises) that have not settled
InFlight == orphans + (IF pc = "race" THEN 1 ELSE 0)

CurrentActivity == activities[idx]

-----------------------------------------------------------------------------
(* Workers.doDailySet and Workers.doMorePromotions *)

\* the first filter of line 41
DailyOpen(x) == ~x.complete /\ x.pointProgressMax > 0

\* a second filter that asks the job state whatever the configuration says
DailyKeepAlwaysAsks(cfg, done, x) ==
    /\ DailyOpen(x)
    /\ ~isDone(done, x.offerId)

DailyKeep(cfg, done, x) ==
    /\ DailyOpen(x)
    /\ (cfg.jobStateEnabled = FALSE \/ ~isDone(done, x.offerId))

\* isDone is reached for the items that pass the first filter, unless the job
\* state is disabled
DailyConsults(d, cfg) ==
    IF cfg.jobStateEnabled # FALSE /\ \E i \in 1..Len(d.dailySet) : DailyOpen(d.dailySet[i])
    THEN {"isDone"} ELSE {}

DailyUncompleted(d, cfg, done) ==
    LET keep(x) == DailyKeep(cfg, done, x) IN SelectSeq(d.dailySet, keep)

MoreKeep(x) ==
    ~x.complete /\ x.pointProgressMax > 0 /\ x.exclusiveLockedFeatureStatus # "locked"

\* data.morePromotions after the promotional item was pushed onto it
MorePushed(d) ==
    IF d.promotionalItem # NoItem
    THEN Append(d.morePromotions, d.promotionalItem)
    ELSE d.morePromotions

MoreUncompleted(list) == SelectSeq(list, MoreKeep)

\* solveActivities: the locals before the loop
EnterSolve(list) ==
    /\ activities' = list
    /\ idx' = IF list = <<>> THEN 0 ELSE 1
    /\ throttle' = NewThrottler
    /\ attempted' = <<>>
    /\ failedLog' = <<>>
    /\ attempt' = 0
    /\ error' = NoError
    /\ pc' = IF list = <<>> THEN "return" ELSE "manage"

DoDailySet ==
    /\ pc = "idle" /\ runs < MaxRuns
    /\ runs' = runs + 1
    /\ caller' = "daily"
    /\ LET list == DailyUncompleted(data, config, jobDone)
       IN IF list = <<>>
          THEN UNCHANGED <<activities, idx, throttle, attempted,
                           failedLog, attempt, error, pc>>
          ELSE EnterSolve(list)
    /\ jobCalls' = jobCalls \cup DailyConsults(data, config)
    /\ UNCHANGED <<data, config, jobDone, stats, pages, closeCall, orphans, card, records, summary, sideVars>>

DoMorePromotions ==
    /\ pc = "idle" /\ runs < MaxRuns
    /\ runs' = runs + 1
    /\ caller' = "more"
    /\ data' = [data EXCEPT !.morePromotions = MorePushed(data)]
    /\ LET list == MoreUncompleted(MorePushed(data))
       IN IF list = <<>>
          THEN UNCHANGED <<activities, idx, throttle, attempted,
                           failedLog, attempt, error, pc, pages, closeCall>>
          ELSE \E r \in getLatestTab(pages) :
                  /\ pages' = r.pages
                  /\ closeCall' = closeCall
                  /\ IF r.ok
                     THEN EnterSolve(list)
                     ELSE UNCHANGED <<activities, idx, throttle,
                                      attempted, failedLog, attempt, error, pc>>
    /\ UNCHANGED <<config, jobDone, stats, orphans, card, records, otherVars>>

\* the tail of the worker after solveActivities returned: markDone for the
\* daily set, then getLatestTab and goHome
MarkAllDone(done, list) == done \cup SeqRange(OfferIds(list))

WorkerFinish ==
    /\ pc = "return" /\ caller # "punch"
    /\ jobDone' = IF caller = "daily" /\ config.jobStateEnabled # FALSE
                  THEN MarkAllDone(jobDone, activities)
                  ELSE jobDone
    /\ jobCalls' = IF caller = "daily" /\ config.jobStateEnabled # FALSE
                   THEN jobCalls \cup {"markDone"}
                   ELSE jobCalls
    /\ \E r \in getLatestTab(pages) : pages' = r.pages
    /\ pc' = "idle"
    /\ activities' = <<>> /\ idx' = 0
    /\ throttle' = NewThrottler /\ attempt' = 0
    /\ attempted' = <<>> /\ failedLog' = <<>>
    /\ closeCall' = NoClose
    /\ records' = 0
    /\ UNCHANGED <<data, config, stats, caller, error, orphans, runs, card, summary, sideVars>>

-----------------------------------------------------------------------------
(* Workers.doPunchCard *)

PunchKeep(x) == x.parentPromotion.present /\ ~x.parentPromotion.complete

punchCardsUncompleted(d) == SelectSeq(d.punchCards, PunchKeep)

ChildKeep(x) == ~x.complete

PunchActivities(c) == SelectSeq(c.childPromotions, ChildKeep)

CurrentCard == punchCardsUncompleted(data)[card]

DoPunchCard ==
    /\ pc = "idle" /\ runs < MaxRuns
    /\ runs' = runs + 1
    /\ caller' = "punch"
    /\ IF punchCardsUncompleted(data) = <<>>
       THEN UNCHANGED <<pc, card, records, otherVars>>
       ELSE pc' = "punchCard" /\ card' = 1
    /\ UNCHANGED <<data, config, jobDone, stats, pages, closeCall, activities, idx,
                   throttle, attempt, error, orphans, attempted, failedLog, records, otherVars>>

\* the for loop over the punch cards moves on, or doPunchCard returns
PunchAdvance ==
    IF card < Len(punchCardsUncompleted(data))
    THEN card' = card + 1 /\ pc' = "punchCard"
    ELSE card' = 0 /\ pc' = "idle"

\* an exception leaves doPunchCard: the loop over the cards is not inside a try
PunchThrow == card' = 0 /\ pc' = "idle"

\* lines 96-117: the title check, getLatestTab, page.goto and the network-idle
\* wait of one punch card
PunchCardOpen ==
    /\ pc = "punchCard"
    /\ IF CurrentCard.parentPromotion.title = ""
       THEN PunchAdvance /\ pages' = pages
       ELSE \E r \in getLatestTab(pages) :
               /\ pages' = r.pages
               /\ IF ~r.ok THEN PunchThrow
                  ELSE \/ PunchThrow                         \* page.goto throws
                       \/ \E idle \in BOOLEAN :
                             /\ pc' = IF idle THEN "punchSolve" ELSE "punchIdleFailed"
                             /\ card' = card
    /\ UNCHANGED <<data, config, jobDone, stats, closeCall, caller, activities, idx,
                   throttle, attempt, error, orphans, attempted, failedLog, runs,
                   records, otherVars>>

\* line 119: solveActivities(page, activitiesUncompleted, punchCard)
PunchSolve ==
    /\ pc = "punchSolve"
    /\ EnterSolve(PunchActivities(CurrentCard))
    /\ UNCHANGED <<data, config, jobDone, stats, pages, closeCall, caller, orphans,
                   runs, card, records, otherVars>>

\* lines 121-131: after solveActivities returned, getLatestTab, then close the
\* page when more than three are listed, otherwise goHome (which rethrows
\* its navigation errors)
PunchCardFinish ==
    /\ pc = "return" /\ caller = "punch"
    /\ \E r \in getLatestTab(pages) :
          IF ~r.ok THEN pages' = r.pages /\ PunchThrow
          ELSE IF Len(r.pages) > TAB_CAP
               THEN pages' = ClosePage(r.pages, r.page) /\ PunchAdvance
               ELSE pages' = r.pages /\ (PunchAdvance \/ PunchThrow)
    /\ activities' = <<>> /\ idx' = 0
    /\ throttle' = NewThrottler /\ attempt' = 0
    /\ attempted' = <<>> /\ failedLog' = <<>>
    /\ closeCall' = NoClose /\ records' = 0
    /\ UNCHANGED <<data, config, jobDone, stats, caller, error, orphans, runs, otherVars>>

-----------------------------------------------------------------------------
(* Workers.solveActivities: the loop body, its catch and the loop advance *)

\* an exception leaves the try block
Throw(e) == pc' = "catch" /\ error' = e

\* the for loop moves to the next activity, or solveActivities returns; the
\* iteration's locals (retry.run's attempt counter, the close made by
\* manageTabLifecycle) go out of scope
Advance ==
    /\ IF idx < Len(activities)
       THEN idx' = idx + 1 /\ pc' = "manage"
       ELSE idx' = idx /\ pc' = "return"
    /\ attempt' = 0
    /\ closeCall' = NoClose

ManageTabLifecycle ==
    /\ pc = "manage"
    /\ attempted' = Append(attempted, CurrentActivity.offerId)
    /\ \E r \in manageTabLifecycle(pages) :
          /\ pages' = r.pages
          /\ closeCall' = r.close
          /\ IF r.ok THEN pc' = "throttle" /\ error' = error
             ELSE Throw(Err("tab", 0))
    /\ records' = 0
    /\ UNCHANGED <<data, config, jobDone, stats, caller, activities, idx,
                   throttle, attempt, orphans, failedLog, runs, card, otherVars>>

ApplyThrottle ==
    /\ pc = "throttle"
    /\ IF applyThrottleThrows(throttle, THROTTLE_MIN, THROTTLE_MAX)
       THEN Throw(Err("throttle", 0))
       ELSE pc' = "selector" /\ error' = error
    /\ UNCHANGED <<data, config, jobDone, stats, pages, closeCall, caller, activities,
                   idx, throttle, attempt, orphans, attempted,
                   failedLog, runs, card, records, otherVars>>

\* getPunchCardActivity swallows its errors and the other selectors are string
\* templates: buildActivitySelector returns a selector
BuildActivitySelector ==
    /\ pc = "selector"
    /\ pc' = "prepare"
    /\ UNCHANGED <<data, config, jobDone, stats, pages, closeCall, caller, activities,
                   idx, throttle, attempt, error, orphans, attempted,
                   failedLog, runs, card, records, otherVars>>

\* a wait without its .catch: the rejection leaves prepareActivityPage
WaitForNetworkIdleUncaught ==
    /\ pc = "prepare"
    /\ \/ pc' = "humanize" /\ error' = error
       \/ Throw(Err("idle", 0))
    /\ UNCHANGED <<data, config, jobDone, stats, pages, closeCall, caller, activities,
                   idx, throttle, attempt, orphans, attempted,
                   failedLog, runs, card, records, otherVars>>

\* prepareActivityPage, lines 262-265: waitForNetworkIdle settles; a rejection
\* (failure or timeout) goes to the handler logError returned
WaitForNetworkIdle ==
    /\ pc = "prepare"
    /\ \E idle \in BOOLEAN : pc' = IF idle THEN "humanize" ELSE "idleFailed"
    /\ UNCHANGED <<data, config, jobDone, stats, pages, closeCall, caller, activities,
                   idx, throttle, attempt, error, orphans, attempted,
                   failedLog, runs, card, records, otherVars>>

\* the handler returned by logError(title, message, isMobile): it logs the
\* error and returns, so the awaited promise fulfils
LogError ==
    /\ pc \in {"idleFailed", "punchIdleFailed"}
    /\ pc' = IF pc = "idleFailed" THEN "humanize" ELSE "punchSolve"
    /\ UNCHANGED <<data, config, jobDone, stats, pages, closeCall, caller, activities,
                   idx, throttle, attempt, error, orphans, attempted,
                   failedLog, runs, card, records, otherVars>>

\* prepareActivityPage, lines 266-267: humanizePage swallows its errors; the
\* throttled spacing wait remains
PrepareActivityPage ==
    /\ pc = "humanize"
    /\ IF applyThrottleThrows(throttle, ACTIVITY_SPACING_MIN, ACTIVITY_SPACING_MAX)
       THEN Throw(Err("prepare", 0))
       ELSE pc' = "dispatch" /\ error' = error
    /\ UNCHANGED <<data, config, jobDone, stats, pages, closeCall, caller, activities,
                   idx, throttle, attempt, orphans, attempted,
                   failedLog, runs, card, records, otherVars>>

SkipUnsupported ==
    /\ pc = "dispatch"
    /\ getTypeLabel(CurrentActivity) = "Unsupported"
    /\ pc' = "spacing"
    /\ UNCHANGED <<data, config, jobDone, stats, pages, closeCall, caller, activities,
                   idx, throttle, attempt, error, orphans, attempted,
                   failedLog, runs, card, records, otherVars>>

ActivitySpacing ==
    /\ pc = "spacing"
    /\ IF applyThrottleThrows(throttle, ACTIVITY_SPACING_MIN, ACTIVITY_SPACING_MAX)
       THEN Throw(Err("spacing", 0)) /\ UNCHANGED <<idx, attempt, closeCall>>
       ELSE Advance /\ error' = error
    /\ UNCHANGED <<data, config, jobDone, stats, pages, caller, activities,
                   throttle, orphans, attempted, failedLog, runs, card, records, otherVars>>

\* a catch that logs and rethrows: the batch is abandoned
CatchActivityRethrows ==
    /\ pc = "catch"
    /\ failedLog' = Append(failedLog, CurrentActivity.offerId)
    /\ throttle' = record(throttle, FALSE)
    /\ records' = records + 1
    /\ pc' = "return"
    /\ UNCHANGED <<data, config, jobDone, stats, pages, closeCall, caller, activities,
                   idx, attempt, error, orphans, attempted, runs, card, otherVars>>

\* catch (error): log the failure, throttle.record(false), next activity
CatchActivity ==
    /\ pc = "catch"
    /\ failedLog' = Append(failedLog, CurrentActivity.offerId)
    /\ throttle' = record(throttle, FALSE)
    /\ records' = records + 1
    /\ error' = NoError
    /\ Advance
    /\ UNCHANGED <<data, config, jobDone, stats, pages, caller, activities,
                   orphans, attempted, runs, card, otherVars>>

-----------------------------------------------------------------------------
(* Workers.executeActivity *)

\* what the click does to the context: a navigation in place or a new tab
ClickEffects(ps) ==
    {ps} \cup (IF Len(ps) < MaxTabs THEN {Append(ps, OpenTab)} ELSE {})

\* a skip that returns without recording the outcome
ElementNotFoundUnrecorded(started, activityType) ==
    /\ stats' = started
    /\ pc' = "spacing" /\ error' = error
    /\ UNCHANGED <<pages, closeCall>>

\* lines 285-289: elementResult.found is false, the skip is logged, counted as
\* a success and executeActivity returns
ElementNotFound(started, activityType) ==
    /\ stats' = recordSuccess(started, activityType)
    /\ pc' = "spacing" /\ error' = error
    /\ UNCHANGED <<pages, closeCall>>

\* lines 271-310: startActivity, waitForElementSmart, the click, getLatestTab
\* and the computation of the timeout
ExecuteActivity ==
    /\ pc = "dispatch"
    /\ getTypeLabel(CurrentActivity) # "Unsupported"
    /\ attempt' = 0
    /\ LET activityType == getTypeLabel(CurrentActivity)
           started == startActivity(stats, activityType)
       IN \/ ElementNotFound(started, activityType)
          \/ /\ stats' = recordFailure(started, activityType, Err("click", 0))
             /\ Throw(Err("clickfailed", 0))
             /\ UNCHANGED <<pages, closeCall>>
          \/ \E c \in ClickEffects(pages) :
             \E r \in getLatestTab(c) :
                /\ pages' = r.pages
                /\ closeCall' = closeCall
                /\ stats' = started
                /\ IF ~r.ok THEN Throw(Err("latestTab", 0))
                   ELSE IF stringToMsThrows(config.globalTimeout)
                        THEN Throw(Err("timeoutParse", 0))
                        ELSE pc' = "retry" /\ error' = error
    /\ UNCHANGED <<data, config, jobDone, caller, activities, idx, throttle, orphans, attempted, failedLog, runs, card, records, otherVars>>

\* Retry.run invokes the wrapped operation: bot.activities.run starts and the
\* timer of timeoutMs(config) is armed
RetryAttempt ==
    /\ pc = "retry"
    /\ attempt' = attempt + 1
    /\ pc' = "race"
    /\ UNCHANGED <<data, config, jobDone, stats, pages, closeCall, caller, activities,
                   idx, throttle, error, orphans, attempted,
                   failedLog, runs, card, records, otherVars>>

\* an executeActivity that rethrows the error without recording the failure
AttemptFailedUnrecorded(e) ==
    /\ throttle' = record(throttle, FALSE)
    /\ records' = records + 1
    /\ stats' = stats
    /\ IF RetryAgain(attempt, config.maxAttempts, e)
       THEN pc' = "retry" /\ error' = error
       ELSE Throw(e)

\* the attempt failed with e: throttle.record(false), then Retry.run either
\* backs off and tries again or rejects with e, which executeActivity records
\* and rethrows
AttemptFailed(e) ==
    /\ throttle' = record(throttle, FALSE)
    /\ records' = records + 1
    /\ IF RetryAgain(attempt, config.maxAttempts, e)
       THEN pc' = "retry" /\ error' = error /\ stats' = stats
       ELSE /\ stats' = recordFailure(stats, getTypeLabel(CurrentActivity), e)
            /\ Throw(e)

\* the handler promise wins the race and fulfils
HandlerResolves ==
    /\ pc = "race"
    /\ throttle' = record(throttle, TRUE)
    /\ records' = records + 1
    /\ stats' = recordSuccess(stats, getTypeLabel(CurrentActivity))
    /\ pc' = "spacing"
    /\ UNCHANGED <<data, config, jobDone, pages, closeCall, caller, activities, idx,
                   attempt, error, orphans, attempted, failedLog, runs, card, otherVars>>

\* the handler promise wins the race and rejects
HandlerRejects ==
    /\ pc = "race"
    /\ AttemptFailed(Err("handler", attempt))
    /\ UNCHANGED <<data, config, jobDone, pages, closeCall, caller, activities, idx,
                   attempt, orphans, attempted, failedLog, runs, card, otherVars>>

\* the handler promise of an attempt that timed out keeps running
OrphansAfterTimeout(n) == IF n < MaxOrphans THEN n + 1 ELSE MaxOrphans

\* a race without its timer: only the handler can end the attempt
TimeoutNeverFires ==
    /\ pc = "race"
    /\ FALSE
    /\ UNCHANGED vars

\* the timer fires first: the race rejects with the timeout error
TimeoutFires ==
    /\ pc = "race"
    /\ orphans' = OrphansAfterTimeout(orphans)
    /\ AttemptFailed(Err("timeout", attempt))
    /\ UNCHANGED <<data, config, jobDone, pages, closeCall, caller, activities, idx,
                   attempt, attempted, failedLog, runs, card, otherVars>>

-----------------------------------------------------------------------------
(* SummaryReporter.generateReport, called between the workers' runs *)

\* lines 573-614: the account breakdown, logActivityStats, then the three
\* notifications are awaited (each catches its own errors)
GenerateReport ==
    /\ pc = "idle"
    /\ summary' = getSummary(stats)
    /\ pc' = "report"
    /\ UNCHANGED <<data, config, jobDone, stats, pages, closeCall, caller, activities,
                   idx, throttle, attempt, error, orphans, attempted, failedLog,
                   runs, card, records, jobCalls, sideVars>>

\* lines 616-618: resetActivityStatsTracker, and generateReport completes
ResetActivityStatsTracker ==
    /\ pc = "report"
    /\ stats' = reset(stats)
    /\ summary' = NoSummary
    /\ pc' = "idle"
    /\ UNCHANGED <<data, config, jobDone, pages, closeCall, caller, activities,
                   idx, throttle, attempt, error, orphans, attempted, failedLog,
                   runs, card, records, jobCalls, sideVars>>

-----------------------------------------------------------------------------
(* The environment: handlers that are running, and the browser *)

OrphanSettles ==
    /\ orphans > 0
    /\ orphans' = orphans - 1
    /\ UNCHANGED <<data, config, jobDone, stats, pages, closeCall, pc, caller,
                   activities, idx, throttle, attempt, error,
                   attempted, failedLog, runs, card, records, otherVars>>

HandlerOpensTab ==
    /\ InFlight > 0
    /\ Len(pages) < MaxTabs
    /\ pages' = Append(pages, OpenTab)
    /\ closeCall' = closeCall
    /\ UNCHANGED <<data, config, jobDone, stats, pc, caller, activities, idx,
                   throttle, attempt, error, orphans, attempted,
                   failedLog, runs, card, records, otherVars>>

\* a running handler closes a page: the context no longer lists it
HandlerClosesTab ==
    /\ InFlight > 0
    /\ \E i \in 1..Len(pages) : pages' = ClosePage(pages, i)
    /\ UNCHANGED <<data, config, jobDone, stats, closeCall, pc, caller, activities,
                   idx, throttle, attempt, error, orphans, attempted, failedLog, runs, card, records, otherVars>>

-----------------------------------------------------------------------------

Runner ==
    \/ DoDailySet \/ DoMorePromotions \/ WorkerFinish
    \/ DoPunchCard \/ PunchCardOpen \/ PunchSolve \/ PunchCardFinish
    \/ GenerateReport \/ ResetActivityStatsTracker
    \/ ManageTabLifecycle \/ ApplyThrottle \/ BuildActivitySelector
    \/ WaitForNetworkIdle \/ LogError \/ PrepareActivityPage \/ SkipUnsupported \/ ExecuteActivity
    \/ RetryAttempt \/ HandlerResolves \/ HandlerRejects \/ TimeoutFires
    \/ ActivitySpacing \/ CatchActivity

Environment == OrphanSettles \/ HandlerOpensTab \/ HandlerClosesTab

Next == Runner \/ Environment

Spec == Init /\ [][Next]_vars

\* what the event loop schedules: every step of the runner and the timer of the
\* race; whether and when a handler promise settles is the handler's business
Scheduled ==
    \/ DoDailySet \/ DoMorePromotions \/ WorkerFinish
    \/ DoPunchCard \/ PunchCardOpen \/ PunchSolve \/ PunchCardFinish
    \/ GenerateReport \/ ResetActivityStatsTracker
    \/ ManageTabLifecycle \/ ApplyThrottle \/ BuildActivitySelector
    \/ WaitForNetworkIdle \/ LogError \/ PrepareActivityPage \/ SkipUnsupported \/ ExecuteActivity
    \/ RetryAttempt \/ TimeoutFires \/ ActivitySpacing \/ CatchActivity

FairSpec == Spec /\ WF_vars(Scheduled)

-----------------------------------------------------------------------------
(* Helpers of the properties *)

InSolve ==
    pc \notin {"idle", "return", "punchCard", "punchIdleFailed", "punchSolve", "report"}

\* the activity of the list with the given offer id
ActivityOf(id) == CHOOSE a \in SeqRange(activities) : a.offerId = id

\* entries of the failure log whose activity has the normalized type t
FailedOfType(t) ==
    Cardinality({ i \in 1..Len(failedLog) :
                    toUpperCase(getTypeLabel(ActivityOf(failedLog[i]))) = t })

-----------------------------------------------------------------------------
(* Properties *)

\* C1: solveActivities enters the loop body of every activity of its list, in
\* list order, whatever failed for the earlier ones: while it runs the
\* activities attempted so far are the first ones of the list, and when it
\* returns all of them have been attempted.
C1_AllAttemptedInOrder ==
    /\ InSolve =>
          attempted = SubSeq(OfferIds(activities), 1, IF pc = "manage" THEN idx - 1 ELSE idx)
    /\ pc = "return" => attempted = OfferIds(activities)

\* an activity that is not the last of the list has failed, and the end of the
\* list was reached
C1_Witness ==
    /\ pc = "return"
    /\ Len(activities) >= 2
    /\ Len(failedLog) >= 1
    /\ failedLog[1] = activities[1].offerId

\* C2: Retry.run invokes the handler at most retryPolicy.maxAttempts times;
\* the error that leaves executeActivity after failed attempts is the error of
\* attempt number maxAttempts, and it has been recorded as the failure of the
\* activity's type before it is rethrown.
C2_RetryStopsWithLastError ==
    /\ attempt <= config.maxAttempts
    /\ (pc = "catch" /\ error.src \in {"handler", "timeout"}) =>
          /\ attempt = config.maxAttempts
          /\ error.attempt = config.maxAttempts
          /\ LET st == stats[toUpperCase(getTypeLabel(CurrentActivity))]
             IN st.failures >= 1 /\ st.lastError = error

\* two attempts were made, both failed, and the second error is being thrown
C2_Witness ==
    /\ pc = "catch"
    /\ config.maxAttempts >= 2
    /\ error.src \in {"handler", "timeout"}
    /\ error.attempt = config.maxAttempts

\* C3: the delay multiplier stays within its lower and upper bound.
C3_MultiplierBounded ==
    /\ MinMultiplier <= getDelayMultiplier(throttle)
    /\ getDelayMultiplier(throttle) <= MaxMultiplier

\* the second activity failed both attempts after the first activity had
\* failed: at least three failures in a row were recorded
C3_Witness ==
    /\ pc = "catch" /\ idx = 2 /\ Len(failedLog) = 1
    /\ error.src \in {"handler", "timeout"} /\ error.attempt = 2
    /\ getDelayMultiplier(throttle) = MaxMultiplier

\* C4: every failure caught by solveActivities was recorded in the stats
\* tracker: for each type, the failures recorded are at least the failures
\* the catch has logged for activities of that type.
C4_Claim ==
    \A t \in NormalizedTypes : stats[t].failures >= FailedOfType(t)

\* C5: at most one handler invocation is in flight.
C5_Claim == InFlight <= 1

\* C6: with job state enabled, a daily-set activity whose attempt failed and
\* that the dashboard still reports incomplete is selected again by the next
\* doDailySet: when the worker finishes, every such activity passes the filter.
C6_Claim ==
    [][(pc = "return" /\ caller = "daily" /\ config.jobStateEnabled) =>
         \A a \in SeqRange(data.dailySet) :
            (a.offerId \in SeqRange(failedLog) /\ ~a.complete /\ a.pointProgressMax > 0)
               => a \in SeqRange(DailyUncompleted(data', config', jobDone'))]_vars

\* C7: when manageTabLifecycle returns, the context holds at most 3 tabs.
C7_Claim ==
    [][(pc = "manage" /\ pc' = "throttle") => Len(pages') <= TAB_CAP]_vars

\* C8 (as claimed): the tab manageTabLifecycle closes is never the most
\* recently opened one, the last page of the list.
C8_Claim == closeCall.index # 0 => closeCall.index # closeCall.listed

\* C8 (amended): the tab manageTabLifecycle closes is the page getLatestTab
\* returned, which is the last listed page, the most recently opened tab.
C8_ClosesLatestTab == closeCall.index # 0 => closeCall.index = closeCall.listed

\* manageTabLifecycle found more than TAB_CAP tabs and closed one
C8_Witness == closeCall.index # 0 /\ closeCall.listed > TAB_CAP /\ pc = "throttle"

\* C9: under the scheduling of the event loop, solveActivities reaches the end
\* of its list even when handlers never settle: the timer of the race ends
\* every attempt.
C9_ReachesEndOfList == InSolve ~> (pc = "return")

\* a handler attempt was ended by the timer and the list was finished
C9_Witness == pc = "return" /\ orphans >= 1

\* C10: the worker leaves the dashboard snapshot as it was.
C10_Claim == [][data' = data]_vars

\* C11: a failed or timed-out network-idle wait, in prepareActivityPage and in
\* doPunchCard, does not fail the activity: the handler of logError takes the
\* rejection, nothing is thrown or counted as a failure, and the runner goes
\* on to humanizePage and the spacing wait (to solveActivities in doPunchCard)
\* and from there to the dispatch of the activity.
C11_IdleWaitFailureProceeds ==
    /\ [][(pc = "prepare" => pc' \in {"prepare", "humanize", "idleFailed"})
          /\ (pc = "idleFailed" => pc' \in {"idleFailed", "humanize"})
          /\ (pc = "punchIdleFailed" => pc' \in {"punchIdleFailed", "punchSolve"})
          /\ (pc \in {"idleFailed", "punchIdleFailed"} =>
                 failedLog' = failedLog /\ error' = error /\ stats' = stats
                 /\ throttle' = throttle)]_vars
    /\ (pc = "idleFailed") ~> (pc = "dispatch")
    /\ (pc = "punchIdleFailed") ~> (pc \in {"manage", "return"})

\* the network-idle wait of the second activity of a list has failed
C11_Witness == pc = "idleFailed" /\ idx = 2 /\ failedLog = <<>>

\* C12: generateReport reports the statistics of the run before they are
\* cleared: while the notifications are awaited the tracker still holds what
\* logActivityStats read, and when generateReport completes the tracker holds
\* zero attempts for every type.
C12_ReportThenReset ==
    /\ [](pc = "report" => summary = getSummary(stats))
    /\ [][(pc = "report" /\ pc' = "idle") =>
             \A t \in NormalizedTypes : stats'[t].attempts = 0]_vars

\* a report is in progress after a run with at least two attempts, one of them
\* failed
C12_Witness ==
    pc = "report" /\ summary.totalAttempts >= 2 /\ summary.totalFailures >= 1

\* the positions of the daily set that the three conditions of C13 keep
C13_Kept ==
    { i \in 1..Len(data.dailySet) :
        /\ data.dailySet[i].complete = FALSE
        /\ data.dailySet[i].pointProgressMax > 0
        /\ (config.jobStateEnabled => data.dailySet[i].offerId \notin jobDone) }

\* C13: the list doDailySet passes to solveActivities holds exactly the
\* activities of the daily set that are incomplete, have pointProgressMax > 0
\* and (with job state enabled) are not marked done, in dashboard order; with
\* job state disabled neither isDone nor markDone is ever called and the job
\* state stays as it was.
C13_DailySelection ==
    /\ [][(pc = "idle" /\ caller' = "daily" /\ runs' = runs + 1) =>
            IF C13_Kept = {}
            THEN pc' = "idle"
            ELSE /\ pc' = "manage"
                 /\ Len(activities') = Cardinality(C13_Kept)
                 /\ \A i \in C13_Kept :
                       activities'[Cardinality({ j \in C13_Kept : j <= i })]
                          = data.dailySet[i]]_vars
    /\ [](config.jobStateEnabled = FALSE => jobCalls = {})
    /\ [][config.jobStateEnabled = FALSE => jobDone' = jobDone]_vars

\* with job state disabled, the daily set was solved although the job state
\* holds one of its activities as done, and the worker has finished
C13_Witness ==
    /\ config.jobStateEnabled = FALSE /\ caller = "daily" /\ pc = "idle" /\ runs = 1
    /\ "d1" \in jobDone
    /\ \E t \in NormalizedTypes : stats[t].attempts >= 1

\* the lower-case form of the name has the given word somewhere in it
C14_NameHas(name, word) ==
    \E k \in 1..Len(name) :
       /\ k + Len(word) - 1 <= Len(name)
       /\ \A i \in 1..Len(word) : LowerChar(name[k + i - 1]) = word[i]

\* C14: buildActivitySelector returns the punch-card selector when a punch
\* card is given; otherwise the selector built from the name when the name
\* contains membercenter or exploreonbing in any letter case or when offerId
\* is absent; otherwise the selector built from offerId.
C14_SelectorChoice ==
    selArgs.called =>
       LET a == selArgs.activity
       IN IF selArgs.punchCard
          THEN selector = getPunchCardActivity(selArgs.content, a)
          ELSE IF \/ C14_NameHas(a.name, membercenter)
                  \/ C14_NameHas(a.name, exploreonbing)
                  \/ a.offerId = <<>>
               THEN selector = [kind |-> "data-bi-id", value |-> a.name]
               ELSE selector = [kind |-> "data-bi-id", value |-> a.offerId]

\* an activity with an offer id whose name has EXPLOREONBING in capitals got
\* the selector built from its name
C14_Witness ==
    /\ selArgs.called /\ ~selArgs.punchCard
    /\ selArgs.activity.offerId # <<>>
    /\ Len(selArgs.activity.name) = 15
    /\ selector.value = selArgs.activity.name

\* requests of the ip without the valid secret let through in the last minute
C15_LetThrough(ip) == recent[ip][1] + recent[ip][2]

\* C15: for every ip, the requests without the valid secret that the endpoint
\* let through within any one minute are at most 10.
C15_Claim == \A ip \in Ips : C15_LetThrough(ip) <= RATE_LIMIT_MAX_REQUESTS

\* the request that was just handled presented the configured secret
C16_Trusted(req) == env.RATE_LIMIT_SECRET # "" /\ req.secret = env.RATE_LIMIT_SECRET

\* C16: a POST request with the configured RATE_LIMIT_SECRET is not answered
\* 429 and leaves the counter of its ip as it was; with no secret configured,
\* or another secret presented, the request is counted and limited: it starts
\* a window when there is none or it has expired, is answered 429 without a
\* change when the count has reached the maximum, and is counted otherwise.
C16_SecretBypass ==
    [][(now' = now /\ request'.method = "POST") =>
         LET req == request'
             entry == rateLimitMap[req.ip]
         IN IF C16_Trusted(req)
            THEN rateLimitMap' = rateLimitMap /\ response'.status # 429
            ELSE IF entry = NoEntry \/ now > entry.resetTime
                 THEN /\ rateLimitMap'[req.ip] =
                            [count |-> 1, resetTime |-> now + RATE_LIMIT_WINDOW_MS]
                      /\ response'.status # 429
                 ELSE IF entry.count >= RATE_LIMIT_MAX_REQUESTS
                      THEN rateLimitMap' = rateLimitMap /\ response'.status = 429
                      ELSE /\ rateLimitMap'[req.ip] = [entry EXCEPT !.count = @ + 1]
                           /\ response'.status # 429]_vars

\* the ip has used up its window and a request with the configured secret was
\* forwarded all the same
C16_Witness ==
    /\ C16_Trusted(request) /\ request.method = "POST"
    /\ rateLimitMap[request.ip].count = RATE_LIMIT_MAX_REQUESTS
    /\ now <= rateLimitMap[request.ip].resetTime
    /\ response.status = 200

\* C17: to a POST request the handler answers 200 exactly when the report was
\* forwarded, 500 when the call of the Discord webhook fails, and otherwise
\* one of 400, 429 and 500.
C17_Claim ==
    request.method = "POST" =>
       /\ response.status \in {200, 400, 429, 500}
       /\ response.status = 200 <=> (response.fetched /\ request.discord = "ok")
       /\ (response.fetched /\ request.discord # "ok") => response.status = 500

\* C18: for every activity type, successes + failures <= attempts in every
\* state the runner reaches, and none of the three counters decreases in a
\* step other than the reset of the tracker.
C18_CountersConsistent ==
    /\ [](\A t \in NormalizedTypes :
            stats[t].successes + stats[t].failures <= stats[t].attempts)
    /\ [][~(pc = "report" /\ pc' = "idle") =>
             \A t \in NormalizedTypes :
                /\ stats'[t].attempts >= stats[t].attempts
                /\ stats'[t].successes >= stats[t].successes
                /\ stats'[t].failures >= stats[t].failures]_vars

\* two activities of one type were run, one succeeded and one failed
C18_Witness ==
    /\ stats["QUIZ"].attempts = 2
    /\ stats["QUIZ"].successes = 1
    /\ stats["QUIZ"].failures = 1

\* C19: when solveActivities has returned, every attempt that was opened has
\* been closed by a success or a failure: attempts = successes + failures for
\* every type.
C19_Claim ==
    pc = "return" =>
       \A t \in NormalizedTypes :
          stats[t].attempts = stats[t].successes + stats[t].failures

\* C20: when an activity whose handler was attempted is over, throttle.record
\* has been called once per handler attempt: as many calls as Retry.run made
\* attempts, whether the activity succeeded (the handler resolved) or failed
\* (the catch of solveActivities was left).
C20_Claim ==
    [][((pc = "race" /\ pc' = "spacing")
          \/ (pc = "catch" /\ attempt >= 1 /\ pc' # "catch"))
             => records' = attempt]_vars

\* C21: when waitForElementSmart does not find the activity's element,
\* executeActivity counts a success for the activity type and returns normally:
\* no click (the tabs are as they were), no call of the retry wrapper or of the
\* handler (no attempt, no promise in flight), no throttle.record
C21_NotFoundSkips ==
    [][(pc = "dispatch" /\ getTypeLabel(CurrentActivity) # "Unsupported" /\ pc' = "spacing")
         => LET activityType == getTypeLabel(CurrentActivity)
            IN /\ stats' = recordSuccess(startActivity(stats, activityType), activityType)
               /\ pages' = pages
               /\ attempt' = 0 /\ orphans' = orphans
               /\ throttle' = throttle /\ records' = records
               /\ error' = error]_vars

\* a supported activity was skipped because its element was not there
C21_Witness ==
    /\ pc = "spacing" /\ records = 0 /\ attempt = 0
    /\ getTypeLabel(CurrentActivity) # "Unsupported"
    /\ stats[toUpperCase(getTypeLabel(CurrentActivity))].successes >= 1
    /\ throttle = NewThrottler

\* C22: in doPunchCard a failure while one punch card is processed (its
\* navigation, its activities, closing the tab, going home) does not keep the
\* remaining uncompleted punch cards from being processed: doPunchCard is left
\* only from the last card of the list
C22_Claim ==
    [][(caller = "punch" /\ card >= 1 /\ pc' = "idle")
         => card = Len(punchCardsUncompleted(data))]_vars

\* C23: applyThrottle always calls waitRandom with a valid window: for every
\* multiplier the throttle can return, 0 <= floor(min*m) <= floor(max*m), the
\* call does not throw, and the time waited is an integer of
\* [floor(min*m), floor(max*m)] that does not exceed one hour
C23_ValidWindow ==
    (throttled # Idle /\ throttled.called)
       => /\ 0 <= throttled.minMs /\ throttled.minMs <= throttled.maxMs
          /\ ~throttled.thrown
          /\ throttled.waited \in throttled.minMs..throttled.maxMs
          /\ throttled.waited <= MAX_WAIT_MS

\* a wait under the largest multiplier, drawn strictly inside its window
C23_Witness ==
    /\ throttled # Idle /\ throttled.called
    /\ getDelayMultiplier(throttled.throttle) = MaxMultiplier
    /\ throttled.minMs = 3 * ACTIVITY_SPACING_MIN
    /\ throttled.waited > throttled.minMs /\ throttled.waited < throttled.maxMs

\* the listed pages that are open
C24_Open(ps) == { i \in 1..Len(ps) : ~ps[i].closed }

\* C24: getLatestTab never returns a closed page: it returns the last page of
\* the context when that page is open, otherwise the first open page,
\* otherwise a newly created page, and it throws when no page can be created
C24_NeverClosed ==
    (ctx # Idle /\ ctx.called)
       => /\ ctx.ok => (ctx.page \in 1..Len(ctx.pages) /\ ~ctx.pages[ctx.page].closed)
          /\ IF C24_Open(ctx.before) # {}
             THEN /\ ctx.ok /\ ctx.pages = ctx.before
                  /\ IF Len(ctx.before) \in C24_Open(ctx.before)
                     THEN ctx.page = Len(ctx.before)
                     ELSE /\ ctx.page \in C24_Open(ctx.before)
                          /\ \A j \in C24_Open(ctx.before) : ctx.page <= j
             ELSE IF ctx.ok
                  THEN ctx.pages = Append(ctx.before, OpenTab) /\ ctx.page = Len(ctx.pages)
                  ELSE ctx.pages = ctx.before

\* the last page was closed and an earlier open one was returned, after a
\* closed first page
C24_Witness ==
    /\ ctx # Idle /\ ctx.called /\ ctx.ok
    /\ Len(ctx.before) >= 3
    /\ ctx.before[1].closed /\ ctx.before[Len(ctx.before)].closed
    /\ ctx.page = 2

\* C25: goHome runs at most GO_HOME_MAX detection iterations and then
\* terminates; when it returns normally, either the page was already at the
\* dashboard URL or the activities element was found; a detected suspension
\* makes it throw 'Account has been suspended!'
C25_Claim ==
    home # Idle
       => /\ home.iteration <= GO_HOME_MAX + 1
          /\ home.outcome = "returned" => (home.already \/ home.found)

\* the reloads that failed with 'has been closed'
C26_ClosedFailures ==
    Cardinality({ i \in 1..Len(reload.results) : reload.results[i].src = "has been closed" })

\* C26: reloadPageWithRetry (maxAttempts >= 1) makes at most maxAttempts
\* reload attempts, returns normally only after a reload succeeded, and
\* otherwise throws the error of the last failed reload; a second 'has been
\* closed' failure ends the loop, and no reload starts once more than 30 s
\* have passed
C26_ReloadRetry ==
    reload # Idle
       => LET n == Len(reload.results)
          IN /\ n <= reload.maxAttempts
             /\ reload.startedAt <= MAX_TOTAL_TIME_MS
             /\ reload.outcome = "returned" => (n >= 1 /\ reload.results[n].src = "ok")
             /\ reload.outcome = "thrown"
                   => (n >= 1 /\ reload.results[n].src # "ok"
                              /\ reload.thrown = reload.results[n])
             /\ reload.pc = "done" => reload.outcome # "none"
             /\ C26_ClosedFailures <= 2
             /\ C26_ClosedFailures = 2 => reload.pc \in {"end", "done"}

\* the function threw after a second 'has been closed' failure, with
\* attempts to spare
C26_Witness ==
    /\ reload # Idle /\ reload.outcome = "thrown"
    /\ C26_ClosedFailures = 2 /\ Len(reload.results) < reload.maxAttempts
    /\ reload.goHomes = 1

\* C27: AxiosClient.request with bypassProxy = false makes at most 2 attempts;
\* it retries once, after a backoff, only when the first error is retryable (a
\* network error code or a proxy-related message), rethrows a non-retryable
\* error after a single attempt, and surfaces the last error when both
\* attempts fail; a 407 is never retried and the request never goes through a
\* non-proxied client
C27_RequestRetry ==
    (axios # Idle /\ ~axios.bypassProxy)
       => LET n == Len(axios.errors)
          IN /\ axios.requests <= 2 /\ axios.direct = 0
             /\ axios.requests = 2
                   => /\ axios.errors[1].kind \in {"network", "proxyMessage"}
                      /\ axios.slept = <<1000>>
             /\ axios.slept # <<>>
                   => (axios.slept = <<1000>> /\ n >= 1
                       /\ axios.errors[1].kind \in {"network", "proxyMessage"})
             /\ (axios.pc = "done" /\ n = 1 /\ axios.outcome = "thrown")
                   => axios.errors[1].kind \in {"http", "proxyAuth"}
             /\ (axios.pc = "done" /\ n = 1 /\ axios.errors[1].kind = "http")
                   => (axios.requests = 1 /\ axios.outcome = "thrown"
                       /\ axios.thrown = [wrapped |-> FALSE, of |-> axios.errors[1]])
             /\ (axios.pc = "done" /\ n = 2)
                   => (axios.outcome = "thrown" /\ axios.thrown.of = axios.errors[2]
                       /\ axios.thrown.wrapped = (axios.errors[2].kind = "proxyAuth"))
             /\ \A i \in 1..n : axios.errors[i].kind = "proxyAuth"
                   => (i = n /\ axios.outcome # "returned"
                       /\ (axios.pc = "done" => axios.thrown.wrapped))
             /\ axios.outcome = "returned" => n < axios.requests

\* both attempts failed, the first with a proxy-related message, and the
\* second error was thrown
C27_Witness ==
    /\ axios # Idle /\ ~axios.bypassProxy /\ axios.pc = "done"
    /\ axios.requests = 2 /\ Len(axios.errors) = 2
    /\ axios.errors[1].kind = "proxyMessage" /\ axios.errors[2].kind = "network"
    /\ axios.thrown.of = axios.errors[2]

====
